---- MODULE Spec2Model ----
(***************************************************************************)
(* Model of monitor_promos_milhas.py: the collect / filter / window /      *)
(* de-duplicate / sort / log / notify pipeline run by main().              *)
(*                                                                         *)
(* Text is a sequence of one-character strings, so that strip(), lower()   *)
(* and the whitespace regex act on characters as they do in Python.        *)
(* A point in time is an integer number of ticks; TicksPerDay ticks make   *)
(* one day (the program's tick is the microsecond).  An optional datetime  *)
(* is <<>> (None) or <<t>>; the ISO text of t is <<t>> and "" is <<>>.     *)
(***************************************************************************)
EXTENDS Integers, Sequences, FiniteSets, TLC

\* ------------------------------------------------------------------ bounds
TicksPerDay == 2
MaxEntries == 2
MaxRuns == 2

\* --------------------------------------------------------------- constants
RECENCIA_DIAS == 3
TituloMax == 140
DatetimeMin == -1

None == <<>>
Horizonte == RECENCIA_DIAS * TicksPerDay
\* The clock of the first run, and the publish times the feeds use.
Agora0 == Horizonte + 2
NaBorda == Agora0 - Horizonte
Velho == NaBorda - 1
Recente == Agora0 - 1
Times == 0..(Agora0 + 1)

\* Keyword list, reduced to one trigger word.
KEYWORDS == { <<"k">> }

\* Two of the five feeds, in dict order, and one of the two pages.
RSS_SOURCES == << <<"P">>, <<"M">> >>
HTML_SOURCES == << <<"S">> >>
\* scheme and host of the page's URL, which urljoin keeps for a "/path" href
Origin(fonte) == <<"s">>

RssNames == { RSS_SOURCES[i] : i \in DOMAIN RSS_SOURCES }
HtmlNames == { HTML_SOURCES[i] : i \in DOMAIN HTML_SOURCES }
SourceNames == RssNames \cup HtmlNames

\* ------------------------------------------------------------ text helpers
IsSpace(c) == c = " "

LowerChar(c) == IF c = "K" THEN "k" ELSE c

\* Code point of a character (Python compares str by code point).
Ord(c) ==
  CASE c = " " -> 32
    [] c = "!" -> 33
    [] c = "#" -> 35
    [] c = "(" -> 40
    [] c = ")" -> 41
    [] c = "/" -> 47
    [] c = "K" -> 75
    [] c = "M" -> 77
    [] c = "P" -> 80
    [] c = "S" -> 83
    [] c = "[" -> 91
    [] c = "a" -> 97
    [] c = "b" -> 98
    [] c = "k" -> 107
    [] c = "s" -> 115
    [] c = "x" -> 120

RECURSIVE StrLess(_, _)
StrLess(a, b) ==
  IF b = <<>> THEN FALSE
  ELSE IF a = <<>> THEN TRUE
  ELSE IF Ord(Head(a)) < Ord(Head(b)) THEN TRUE
  ELSE IF Ord(Head(a)) > Ord(Head(b)) THEN FALSE
  ELSE StrLess(Tail(a), Tail(b))

RECURSIVE lstrip(_)
lstrip(s) == IF s # <<>> /\ IsSpace(Head(s)) THEN lstrip(Tail(s)) ELSE s

RECURSIVE rstrip(_)
rstrip(s) ==
  IF s # <<>> /\ IsSpace(s[Len(s)]) THEN rstrip(SubSeq(s, 1, Len(s) - 1)) ELSE s

strip(s) == rstrip(lstrip(s))

lower(s) == [i \in DOMAIN s |-> LowerChar(s[i])]

\* re.sub(r"\s+", " ", s): every run of whitespace becomes one space
RECURSIVE CollapseWs(_)
CollapseWs(s) ==
  IF s = <<>> THEN <<>>
  ELSE IF IsSpace(Head(s)) THEN <<" ">> \o CollapseWs(lstrip(s))
  ELSE <<Head(s)>> \o CollapseWs(Tail(s))

Contains(s, sub) ==
  \E i \in 1..(Len(s) - Len(sub) + 1) : SubSeq(s, i, i + Len(sub) - 1) = sub

StartsWith(s, p) == Len(s) >= Len(p) /\ SubSeq(s, 1, Len(p)) = p

normalizar_texto(t) == lower(CollapseWs(strip(t)))

contem_keywords(texto, keywords) ==
  \E k \in keywords : Contains(normalizar_texto(texto), lower(k))

\* ------------------------------------------------------------------ state
VARIABLES
  corpus,        \* what each source serves: [ok, entries]
  pc,            \* position of main()
  run,           \* number of the process run
  AGORA,         \* module constant read at import
  telegramOn,    \* TELEGRAM_BOT_TOKEN and TELEGRAM_CHAT_ID both set
  fonteIdx,      \* position of the collecting loop in its source dict
  rss,           \* resultados of coletar_via_rss
  html,          \* resultados of coletar_via_html
  registros,     \* list returned by buscar_promos_milhas
  corpo,         \* digest handed to the sinks
  logExiste,     \* the CSV file exists
  logRows,       \* rows of the CSV file
  falhou,        \* sources whose processing raised or failed in this run
  ledgerAtStart, \* keys in the CSV when this run started
  anteriorCompleta, \* the run before this one reached the end of main()
  delivered,     \* keys that some sink has accepted
  emailFalhou,   \* the e-mail sink failed in this run
  telegramChamado \* enviar_telegram posted in this run

vars == << corpus, pc, run, AGORA, telegramOn, fonteIdx, rss, html, registros,
           corpo, logExiste, logRows, falhou, ledgerAtStart, anteriorCompleta,
           delivered, emailFalhou, telegramChamado >>

\* ------------------------------------------------------- what sources serve
RssEntry(t, s, l, p, u) ==
  [title |-> t, summary |-> s, link |-> l, published_parsed |-> p, updated_parsed |-> u]

\* Feed entries the sources may serve.
RssEntries ==
  { RssEntry(<<"k", " ", "x">>, <<>>, <<"a">>, <<NaBorda>>, None),
    RssEntry(<<"k", " ", "x">>, <<>>, <<"b">>, <<Velho>>, None),
    RssEntry(<<"k", " ", " ", "x">>, <<>>, <<"a">>, None, None),
    RssEntry(<<" ", "K", " ", "x", " ">>, <<>>, <<"a">>, None, <<Recente>>),
    RssEntry(<<"x">>, <<"k">>, <<"a">>, <<Recente>>, None),
    RssEntry(<<"x">>, <<>>, <<"b">>, <<Recente>>, None),
    RssEntry(<<"k">>, <<"!">>, <<"b">>, <<Recente>>, None) }

Anchor(t, h) == [texto |-> t, href |-> h]

\* Anchors the pages may hold.
Anchors ==
  { Anchor(<<"k">>, <<"/", "x">>),
    Anchor(<<"x">>, <<"/", "k">>),
    Anchor(<<"x">>, <<"/", "x">>),
    Anchor(<<"k">>, <<"#", "k">>),
    Anchor(<<"k">>, <<"/", "/", "[">>) }

EntriesOf(fonte) == IF fonte \in RssNames THEN RssEntries ELSE Anchors

\* ------------------------------------------------------------- collectors
\* dentro_da_janela with an exclusive boundary
dentro_da_janela_exclusiva(data_pub, dias) ==
  IF data_pub = None THEN FALSE
  ELSE LET limite == AGORA - dias * TicksPerDay
       IN  data_pub[1] > limite

dentro_da_janela(data_pub, dias) ==
  IF data_pub = None THEN FALSE
  ELSE LET limite == AGORA - dias * TicksPerDay
       IN  data_pub[1] >= limite

tentar_parse_datetime(entry) ==
  IF entry.published_parsed # None THEN entry.published_parsed
  ELSE IF entry.updated_parsed # None THEN entry.updated_parsed
  ELSE None

isoformat(t) == <<t>>

fromisoformat(s) == s[1]

\* "!" stands for a marked section that html.parser refuses, which makes
\* BeautifulSoup(...) raise.
MarkupRejected(markup) == Contains(markup, <<"!">>)

get_text(markup) == strip(markup)

RssItem(fonte, entry, data) ==
  [fonte |-> fonte,
   titulo |-> strip(entry.title),
   link |-> entry.link,
   resumo |-> get_text(entry.summary),
   data |-> IF data # None THEN isoformat(data[1]) ELSE <<>>,
   tem_data |-> data # None,
   metodo |-> "RSS"]

\* The body of "for entry in feed.entries" under its try: an exception leaves
\* the loop and keeps what was appended before it.
RECURSIVE RssLoop(_, _, _, _, _)
RssLoop(fonte, entries, i, dias, resultados) ==
  IF i > Len(entries) THEN [res |-> resultados, raised |-> FALSE]
  ELSE LET entry == entries[i]
           data == tentar_parse_datetime(entry)
           texto_alvo == entry.title \o <<" ">> \o entry.summary
       IN  IF contem_keywords(texto_alvo, KEYWORDS)
              /\ ((data # None /\ dentro_da_janela(data, dias)) \/ data = None)
           THEN IF MarkupRejected(entry.summary)
                THEN [res |-> resultados, raised |-> TRUE]
                ELSE RssLoop(fonte, entries, i + 1, dias,
                             Append(resultados, RssItem(fonte, entry, data)))
           ELSE RssLoop(fonte, entries, i + 1, dias, resultados)

\* One iteration of "for fonte, url in RSS_SOURCES.items()".
coletar_via_rss(fonte, feed, dias, resultados) ==
  IF ~feed.ok THEN [res |-> resultados, raised |-> TRUE]
  ELSE RssLoop(fonte, feed.entries, 1, dias, resultados)

\* urljoin(url, href) for an href that starts with "/"; "//[" opens a host
\* that is no IPv6 literal, on which urljoin raises ValueError.
urljoinRaises(href) == StartsWith(href, <<"/", "/", "[">>)

urljoin(fonte, href) == Origin(fonte) \o href

HtmlItem(fonte, texto, href) ==
  [fonte |-> fonte,
   titulo |-> IF texto # <<>>
              THEN SubSeq(texto, 1, IF Len(texto) < TituloMax THEN Len(texto) ELSE TituloMax)
              ELSE <<"(", ")">>,
   link |-> href,
   resumo |-> <<>>,
   data |-> <<>>,
   tem_data |-> FALSE,
   metodo |-> "HTML"]

RECURSIVE HtmlLoop(_, _, _, _, _)
HtmlLoop(fonte, candidatos, i, vistos, resultados) ==
  IF i > Len(candidatos) THEN [res |-> resultados, raised |-> FALSE]
  ELSE LET a == candidatos[i]
           texto == a.texto
           alvo == texto \o <<" ">> \o a.href
       IN  IF a.href = <<>> \/ StartsWith(a.href, <<"#">>)
           THEN HtmlLoop(fonte, candidatos, i + 1, vistos, resultados)
           ELSE IF StartsWith(a.href, <<"/">>) /\ urljoinRaises(a.href)
           THEN [res |-> resultados, raised |-> TRUE]
           ELSE LET href == IF StartsWith(a.href, <<"/">>)
                            THEN urljoin(fonte, a.href) ELSE a.href
                    chave == <<href, lower(texto)>>
                IN  IF contem_keywords(alvo, KEYWORDS) /\ chave \notin vistos
                    THEN HtmlLoop(fonte, candidatos, i + 1, vistos \cup {chave},
                                  Append(resultados, HtmlItem(fonte, texto, href)))
                    ELSE HtmlLoop(fonte, candidatos, i + 1, vistos, resultados)

\* One iteration of "for fonte, url in HTML_SOURCES.items()".
coletar_via_html(fonte, page, resultados) ==
  IF ~page.ok THEN [res |-> resultados, raised |-> TRUE]
  ELSE HtmlLoop(fonte, page.entries, 1, {}, resultados)

\* ------------------------------------------------- consolidation and output
RECURSIVE DedupLoop(_, _, _)
DedupLoop(registros_, vistos, unicos) ==
  IF registros_ = <<>> THEN unicos
  ELSE LET r == Head(registros_)
           chave == <<lower(strip(r.titulo)), r.link>>
       IN  IF chave \in vistos
           THEN DedupLoop(Tail(registros_), vistos, unicos)
           ELSE DedupLoop(Tail(registros_), vistos \cup {chave}, Append(unicos, r))

deduplicar(registros_) == DedupLoop(registros_, {}, <<>>)

SortKey(r) ==
  LET dt == IF r.data # <<>> THEN fromisoformat(r.data) ELSE DatetimeMin
  IN  << (IF r.tem_data THEN -1 ELSE 0), dt, r.fonte, r.titulo >>

\* Python's tuple comparison of two sort keys.
KeyLess(a, b) ==
  \/ a[1] < b[1]
  \/ a[1] = b[1] /\ a[2] < b[2]
  \/ a[1] = b[1] /\ a[2] = b[2] /\ StrLess(a[3], b[3])
  \/ a[1] = b[1] /\ a[2] = b[2] /\ a[3] = b[3] /\ StrLess(a[4], b[4])

\* sorted(..., reverse=True) is stable: x goes before the first element whose
\* key is smaller than its own.
RECURSIVE InsertReverse(_, _)
InsertReverse(sorted, x) ==
  IF sorted = <<>> THEN <<x>>
  ELSE IF KeyLess(SortKey(Head(sorted)), SortKey(x)) THEN <<x>> \o sorted
  ELSE <<Head(sorted)>> \o InsertReverse(Tail(sorted), x)

RECURSIVE SortReverse(_, _)
SortReverse(todo, sorted) ==
  IF todo = <<>> THEN sorted
  ELSE SortReverse(Tail(todo), InsertReverse(sorted, Head(todo)))

ordenar(registros_) == SortReverse(registros_, <<>>)

\* One block of the digest per record; no record, no block.
formatar_email(registros_) ==
  [i \in DOMAIN registros_ |->
     [fonte |-> registros_[i].fonte, titulo |-> registros_[i].titulo,
      link |-> registros_[i].link, data |-> registros_[i].data,
      resumo |-> registros_[i].resumo]]

Chave(r) == <<r.fonte, r.link>>

ChavesDe(seq) == { Chave(seq[i]) : i \in DOMAIN seq }

LogRow(r) ==
  [coleta_em |-> AGORA, fonte |-> r.fonte, titulo |-> r.titulo, link |-> r.link,
   data |-> r.data, metodo |-> r.metodo]

RECURSIVE AppendNovos(_, _, _)
AppendNovos(rows, registros_, existentes) ==
  IF registros_ = <<>> THEN rows
  ELSE LET r == Head(registros_)
       IN  IF Chave(r) \in existentes
           THEN AppendNovos(rows, Tail(registros_), existentes)
           ELSE AppendNovos(Append(rows, LogRow(r)), Tail(registros_), existentes)

\* The rows of the file after salvar_log_csv; leituraOk is whether the file
\* that exists could be read back.
salvar_log_csv(registros_, leituraOk) ==
  LET existentes == IF logExiste /\ leituraOk THEN ChavesDe(logRows) ELSE {}
  IN  AppendNovos(logRows, registros_, existentes)

\* ---------------------------------------------------------------- behaviour
Feed(ok, entries) == [ok |-> ok, entries |-> entries]

\* What a source may serve with n entries: n entries, or, being unreachable,
\* nothing.
FeedsOf(fonte, n) ==
  { Feed(TRUE, e) : e \in [1..n -> EntriesOf(fonte)] }
    \cup (IF n = 0 THEN { Feed(FALSE, <<>>) } ELSE {})

\* Every assignment of feeds to the sources S with at most n entries in all.
RECURSIVE Corpora(_, _)
Corpora(S, n) ==
  IF S = {} THEN { <<>> }
  ELSE LET f == CHOOSE x \in S : TRUE
       IN  UNION { { (f :> feed) @@ c : feed \in FeedsOf(f, k), c \in Corpora(S \ {f}, n - k) }
                   : k \in 0..n }

Init ==
  /\ corpus \in Corpora(SourceNames, MaxEntries)
  /\ pc = "rss"
  /\ run = 1
  /\ AGORA = Agora0
  /\ telegramOn \in BOOLEAN
  /\ fonteIdx = 1
  /\ rss = <<>>
  /\ html = <<>>
  /\ registros = <<>>
  /\ corpo = <<>>
  /\ logExiste = FALSE
  /\ logRows = <<>>
  /\ falhou = {}
  /\ ledgerAtStart = {}
  /\ anteriorCompleta = FALSE
  /\ delivered = {}
  /\ emailFalhou = FALSE
  /\ telegramChamado = FALSE

\* coletar_via_rss: one source of the loop
ColetarRss ==
  /\ pc = "rss"
  /\ LET fonte == RSS_SOURCES[fonteIdx]
         r == coletar_via_rss(fonte, corpus[fonte], RECENCIA_DIAS, rss)
     IN  /\ rss' = r.res
         /\ falhou' = IF r.raised THEN falhou \cup {fonte} ELSE falhou
  /\ IF fonteIdx < Len(RSS_SOURCES)
     THEN pc' = "rss" /\ fonteIdx' = fonteIdx + 1
     ELSE pc' = "html" /\ fonteIdx' = 1
  /\ UNCHANGED << corpus, run, AGORA, telegramOn, html, registros, corpo,
                  logExiste, logRows, ledgerAtStart, anteriorCompleta,
                  delivered, emailFalhou, telegramChamado >>

\* coletar_via_html: one source of the loop
ColetarHtml ==
  /\ pc = "html"
  /\ LET fonte == HTML_SOURCES[fonteIdx]
         r == coletar_via_html(fonte, corpus[fonte], html)
     IN  /\ html' = r.res
         /\ falhou' = IF r.raised THEN falhou \cup {fonte} ELSE falhou
  /\ IF fonteIdx < Len(HTML_SOURCES)
     THEN pc' = "html" /\ fonteIdx' = fonteIdx + 1
     ELSE pc' = "consolidar" /\ fonteIdx' = 1
  /\ UNCHANGED << corpus, run, AGORA, telegramOn, rss, registros, corpo,
                  logExiste, logRows, ledgerAtStart, anteriorCompleta,
                  delivered, emailFalhou, telegramChamado >>

\* buscar_promos_milhas's last lines, and main's formatar_email
Consolidar ==
  /\ pc = "consolidar"
  /\ registros' = ordenar(deduplicar(rss \o html))
  /\ corpo' = formatar_email(registros')
  /\ pc' = "log"
  /\ UNCHANGED << corpus, run, AGORA, telegramOn, fonteIdx, rss, html,
                  logExiste, logRows, falhou, ledgerAtStart, anteriorCompleta,
                  delivered, emailFalhou, telegramChamado >>

\* salvar_log_csv returns
SalvarLog ==
  /\ pc = "log"
  /\ logRows' = salvar_log_csv(registros, TRUE)
  /\ logExiste' = TRUE
  /\ pc' = "email"
  /\ UNCHANGED << corpus, run, AGORA, telegramOn, fonteIdx, rss, html,
                  registros, corpo, falhou, ledgerAtStart, anteriorCompleta,
                  delivered, emailFalhou, telegramChamado >>

\* salvar_log_csv cannot read the file back (its except: pass) and appends
SalvarLogSemLeitura ==
  /\ pc = "log"
  /\ logExiste
  /\ logRows' = salvar_log_csv(registros, FALSE)
  /\ pc' = "email"
  /\ UNCHANGED << corpus, run, AGORA, telegramOn, fonteIdx, rss, html,
                  registros, corpo, logExiste, falhou, ledgerAtStart,
                  anteriorCompleta, delivered, emailFalhou, telegramChamado >>

\* salvar_log_csv raises before it writes; main prints the warning
SalvarLogFalha ==
  /\ pc = "log"
  /\ pc' = "email"
  /\ UNCHANGED << corpus, run, AGORA, telegramOn, fonteIdx, rss, html,
                  registros, corpo, logExiste, logRows, falhou, ledgerAtStart,
                  anteriorCompleta, delivered, emailFalhou, telegramChamado >>

\* no credentials file: main prints the hint and goes on
EmailSemCredenciais ==
  /\ pc = "email"
  /\ pc' = "telegram"
  /\ UNCHANGED << corpus, run, AGORA, telegramOn, fonteIdx, rss, html,
                  registros, corpo, logExiste, logRows, falhou, ledgerAtStart,
                  anteriorCompleta, delivered, emailFalhou, telegramChamado >>

\* enviar_email with fewer than three lines in the file: linhas[k] raises
\* IndexError outside any try, and main() ends with it
EmailCredenciaisRuins ==
  /\ pc = "email"
  /\ emailFalhou' = TRUE
  /\ pc' = "crashed"
  /\ UNCHANGED << corpus, run, AGORA, telegramOn, fonteIdx, rss, html,
                  registros, corpo, logExiste, logRows, falhou, ledgerAtStart,
                  anteriorCompleta, delivered, telegramChamado >>

\* enviar_email: the SMTP server takes the message
EmailEnviado ==
  /\ pc = "email"
  /\ delivered' = delivered \cup ChavesDe(corpo)
  /\ pc' = "telegram"
  /\ UNCHANGED << corpus, run, AGORA, telegramOn, fonteIdx, rss, html,
                  registros, corpo, logExiste, logRows, falhou, ledgerAtStart,
                  anteriorCompleta, emailFalhou, telegramChamado >>

\* enviar_email: an SMTP step raises, which its except prints
EmailErroSmtp ==
  /\ pc = "email"
  /\ emailFalhou' = TRUE
  /\ pc' = "telegram"
  /\ UNCHANGED << corpus, run, AGORA, telegramOn, fonteIdx, rss, html,
                  registros, corpo, logExiste, logRows, falhou, ledgerAtStart,
                  anteriorCompleta, delivered, telegramChamado >>

\* Telegram is not configured: main ends
TelegramDesligado ==
  /\ pc = "telegram"
  /\ ~telegramOn
  /\ pc' = "done"
  /\ UNCHANGED << corpus, run, AGORA, telegramOn, fonteIdx, rss, html,
                  registros, corpo, logExiste, logRows, falhou, ledgerAtStart,
                  anteriorCompleta, delivered, emailFalhou, telegramChamado >>

\* enviar_telegram: the post is accepted
TelegramEnviado ==
  /\ pc = "telegram"
  /\ telegramOn
  /\ telegramChamado' = TRUE
  /\ delivered' = delivered \cup ChavesDe(corpo)
  /\ pc' = "done"
  /\ UNCHANGED << corpus, run, AGORA, telegramOn, fonteIdx, rss, html,
                  registros, corpo, logExiste, logRows, falhou, ledgerAtStart,
                  anteriorCompleta, emailFalhou >>

\* enviar_telegram: the post raises, which its except prints
TelegramErro ==
  /\ pc = "telegram"
  /\ telegramOn
  /\ telegramChamado' = TRUE
  /\ pc' = "done"
  /\ UNCHANGED << corpus, run, AGORA, telegramOn, fonteIdx, rss, html,
                  registros, corpo, logExiste, logRows, falhou, ledgerAtStart,
                  anteriorCompleta, delivered, emailFalhou >>

\* The script is started again, later: the module is imported anew (AGORA is
\* read, the lists are empty) over the same sources and the same CSV file.
NovaExecucao ==
  /\ pc \in {"done", "crashed"}
  /\ run < MaxRuns
  /\ run' = run + 1
  /\ AGORA' = AGORA + 1
  /\ pc' = "rss"
  /\ fonteIdx' = 1
  /\ rss' = <<>>
  /\ html' = <<>>
  /\ registros' = <<>>
  /\ corpo' = <<>>
  /\ falhou' = {}
  /\ ledgerAtStart' = (IF logExiste THEN ChavesDe(logRows) ELSE {})
  /\ anteriorCompleta' = (pc = "done")
  /\ emailFalhou' = FALSE
  /\ telegramChamado' = FALSE
  /\ UNCHANGED << corpus, telegramOn, logExiste, logRows, delivered >>

Next ==
  \/ ColetarRss
  \/ ColetarHtml
  \/ Consolidar
  \/ SalvarLog
  \/ SalvarLogSemLeitura
  \/ SalvarLogFalha
  \/ EmailSemCredenciais
  \/ EmailCredenciaisRuins
  \/ EmailEnviado
  \/ EmailErroSmtp
  \/ TelegramDesligado
  \/ TelegramEnviado
  \/ TelegramErro
  \/ NovaExecucao

Spec == Init /\ [][Next]_vars

\* ------------------------------------------------------------------ claims
\* main() has the list that buscar_promos_milhas returned
TemRegistros == pc \in {"log", "email", "telegram", "done", "crashed"}

\* C1: in a run that follows a completed run, no item whose (source, link)
\* key was in the CSV when the run started is in the list that
\* buscar_promos_milhas returns or in the digest made from it.
C1_CrossRunIdempotence ==
  (TemRegistros /\ anteriorCompleta) =>
    /\ ChavesDe(registros) \cap ledgerAtStart = {}
    /\ ChavesDe(corpo) \cap ledgerAtStart = {}

\* C2: every key in the CSV is the key of an item that some sink has accepted.
C2_CommitAfterDeliver == ChavesDe(logRows) \subseteq delivered

\* C3: in the output of ordenar no undated item comes before a dated one.
C3_DatedBeforeUndated ==
  \A i, j \in DOMAIN registros :
    (i < j /\ registros[j].tem_data) => registros[i].tem_data

\* C4: two items of ordenar's output with the same date presence and the same
\* publish time are in ascending order of source, then of title.
C4_TieBreakAscending ==
  \A i, j \in DOMAIN registros :
    (i < j /\ registros[i].tem_data = registros[j].tem_data
           /\ registros[i].data = registros[j].data)
      => /\ ~StrLess(registros[j].fonte, registros[i].fonte)
         /\ registros[i].fonte = registros[j].fonte
              => ~StrLess(registros[j].titulo, registros[i].titulo)

\* C5: a dated item passes the window check iff now - publishedAt is at most
\* the horizon, for every horizon in days: the item published exactly the
\* horizon ago passes and the one a tick older does not (stated where the run
\* has just read AGORA); coletar_via_rss keeps a dated keyword entry of a feed
\* that did not fail iff it passes (stated where its loop has ended); and no
\* dated item older than the horizon is collected or in the pipeline's output.
C5_RecencyBoundary ==
  /\ (pc = "rss" /\ fonteIdx = 1) =>
       /\ \A t \in Times, d \in 0..RECENCIA_DIAS :
            dentro_da_janela(<<t>>, d) <=> (AGORA - t <= d * TicksPerDay)
       /\ dentro_da_janela(<<AGORA - Horizonte>>, RECENCIA_DIAS)
       /\ ~dentro_da_janela(<<AGORA - Horizonte - 1>>, RECENCIA_DIAS)
  /\ \A i \in DOMAIN rss :
       rss[i].tem_data => AGORA - fromisoformat(rss[i].data) <= Horizonte
  /\ \A i \in DOMAIN registros :
       registros[i].tem_data => AGORA - fromisoformat(registros[i].data) <= Horizonte
  /\ pc = "html" =>
       \A f \in RssNames \ falhou : \A k \in DOMAIN corpus[f].entries :
         LET entry == corpus[f].entries[k]
             data == tentar_parse_datetime(entry)
         IN  (data # None
                /\ contem_keywords(entry.title \o <<" ">> \o entry.summary, KEYWORDS))
               => ((\E i \in DOMAIN rss : rss[i] = RssItem(f, entry, data))
                     <=> AGORA - data[1] <= Horizonte)

\* C5 witness: the run has kept an item published exactly the horizon ago and
\* dropped a keyword entry one tick older, served by a feed that did not fail.
C5_Witness ==
  /\ TemRegistros
  /\ \E i \in DOMAIN registros :
       registros[i].tem_data /\ AGORA - fromisoformat(registros[i].data) = Horizonte
  /\ \E f \in RssNames \ falhou : \E k \in DOMAIN corpus[f].entries :
       LET entry == corpus[f].entries[k]
           data == tentar_parse_datetime(entry)
       IN  /\ data # None
           /\ AGORA - data[1] = Horizonte + 1
           /\ contem_keywords(entry.title \o <<" ">> \o entry.summary, KEYWORDS)
           /\ \A i \in DOMAIN rss : rss[i] # RssItem(f, entry, data)

\* The key the claim gives the intra-run collapse.
ChaveNormalizada(r) == <<normalizar_texto(r.titulo), r.link>>

\* C6: of the items of the batch passed to deduplicar that share a title
\* (lowercased, whitespace runs collapsed) and a link, exactly one survives,
\* the first of them, and the survivors keep the input order.
C6_IntraRunCollapse ==
  pc = "consolidar" =>
    LET lote == rss \o html
        unicos == deduplicar(lote)
        Primeiro(c) == CHOOSE i \in DOMAIN lote :
                         /\ ChaveNormalizada(lote[i]) = c
                         /\ \A j \in 1..(i - 1) : ChaveNormalizada(lote[j]) # c
    IN  /\ \A i \in DOMAIN lote :
             LET c == ChaveNormalizada(lote[i])
                 vivos == { k \in DOMAIN unicos : ChaveNormalizada(unicos[k]) = c }
             IN  /\ Cardinality(vivos) = 1
                 /\ \A k \in vivos : unicos[k] = lote[Primeiro(c)]
        /\ \A k, m \in DOMAIN unicos :
             k < m => Primeiro(ChaveNormalizada(unicos[k]))
                        < Primeiro(ChaveNormalizada(unicos[m]))

\* C7: a source whose fetch or processing failed has no item in the run's
\* result, every source that did not fail has all its items collected, and
\* the collection reaches its end.
C7_SourceFailureIsolation ==
  TemRegistros =>
    /\ \A i \in DOMAIN registros : registros[i].fonte \notin falhou
    /\ \A f \in RssNames \ falhou :
         LET own == coletar_via_rss(f, corpus[f], RECENCIA_DIAS, <<>>).res
         IN  \A k \in DOMAIN own : \E i \in DOMAIN rss : rss[i] = own[k]
    /\ \A f \in HtmlNames \ falhou :
         LET own == coletar_via_html(f, corpus[f], <<>>).res
         IN  \A k \in DOMAIN own : \E i \in DOMAIN html : html[i] = own[k]

\* C8: when the e-mail sink has failed and Telegram is configured, main() has
\* not ended before its terminal state and enviar_telegram has been invoked.
C8_SinkFailureIsolation ==
  (emailFalhou /\ telegramOn /\ pc \notin {"email", "telegram"})
    => (pc # "crashed" /\ telegramChamado)

\* C9: every item of the pipeline's output has a keyword in its title and
\* summary.
C9_PositivePatternInText ==
  \A i \in DOMAIN registros :
    contem_keywords(registros[i].titulo \o <<" ">> \o registros[i].resumo, KEYWORDS)

\* C10: the CSV holds at most one row for each (source, link) key.
C10_LedgerKeyUnique ==
  \A i, j \in DOMAIN logRows :
    Chave(logRows[i]) = Chave(logRows[j]) => i = j

====
